---- MODULE Spec2Model ----
(***************************************************************************)
(* ANCE.AI gateway (src/main.py): register, login, chat and usage over a   *)
(* users table and a subscriptions table.  Every request is a handler      *)
(* running in a worker slot; handlers of different slots interleave at     *)
(* their database round trips and at the upstream completion call.         *)
(***************************************************************************)
EXTENDS Integers, Sequences, FiniteSets, TLC

\* ------------------------------------------------------------------ bounds
NProcs == 2            \* concurrent request handlers
DayStep == 30          \* days the clock advances per Tick
MaxNow == 60           \* last day the clock reaches

\* ------------------------------------------------------- program constants
Quota == 500           \* Subscription.quota default
CycleDays == 30        \* timedelta(days=30)
FallbackTokens == 50   \* cost when the upstream response has no usage

\* ------------------------------------------------------------------ inputs
Procs == 1..NProcs
Emails == {"a@x.com", "b@x.com"}
Passwords == {"pw123", "other"}
RegPasswords == {"pw123"}
UserIds == 1..Cardinality(Emails)
ReqTypes == {"text", "image"}
SecretKey == "secret"
NoSub == [kind |-> "none", val |-> 0]
IntSub(u) == [kind |-> "int", val |-> u]
StrSub(u) == [kind |-> "str", val |-> u]
\* a bearer credential: a signed payload, or a string that is no JWT at all
Malformed == [form |-> "garbage", key |-> "forged", sub |-> NoSub]
Jwt(k, c) == [form |-> "jwt", key |-> k, sub |-> c]
Tokens == {Malformed, Jwt("forged", StrSub(1)), Jwt(SecretKey, NoSub)}
            \cup {Jwt(SecretKey, IntSub(u)) : u \in UserIds}
            \cup {Jwt(SecretKey, StrSub(u)) : u \in UserIds}
\* what the completion service answers: a total token count, no usage, or an error
UpstreamCosts == {10, 500}
NoUsage == [kind |-> "nousage", total |-> 0]
UpstreamError == [kind |-> "error", total |-> 0]
UpstreamOutcomes ==
  {[kind |-> "usage", total |-> c] : c \in UpstreamCosts} \cup {NoUsage, UpstreamError}

VARIABLES users, subs, now, req

vars == <<users, subs, now, req>>

\* ------------------------------------------------------------ pure helpers
\* pwd_context.hash / pwd_context.verify (the salt is left out)
Hash(pw) == [scheme |-> "bcrypt", of |-> pw]
VerifyPassword(pw, hashed) == hashed = Hash(pw)

\* db.query(User).filter(User.email == e).first(): the id, 0 for None
FindUser(e) ==
  IF \E i \in 1..Len(users) : users[i].email = e
  THEN CHOOSE i \in 1..Len(users) :
         /\ users[i].email = e
         /\ \A j \in 1..Len(users) : users[j].email = e => i <= j
  ELSE 0

\* db.query(Subscription).filter(Subscription.user_id == uid).first(): the
\* row's id, 0 for None
FindSub(uid) ==
  IF \E i \in 1..Len(subs) : subs[i].user_id = uid
  THEN CHOOSE i \in 1..Len(subs) :
         /\ subs[i].user_id = uid
         /\ \A j \in 1..Len(subs) : subs[j].user_id = uid => i <= j
  ELSE 0

\* jwt.encode({"sub": db_user.id}, SECRET_KEY): the claim is the integer id
Encode(uid) == Jwt(SecretKey, IntSub(uid))

\* jwt.decode(token, SECRET_KEY): the signature, then the registered claims
\* (python-jose: a "sub" that is present must be a string)
DecodeOk(t) ==
  /\ t.form = "jwt"
  /\ t.key = SecretKey
  /\ t.sub.kind # "int"

\* the try block of chat: decode, then payload["sub"]
TokenVerifies(t) == DecodeOk(t) /\ t.sub.kind # "none"

\* the quota comparison off by one: a row at exactly its quota is admitted
RejectedStrictQuota(sid, t) ==
  \/ sid = 0
  \/ t > subs[sid].cycle_end
  \/ subs[sid].tokens_used > subs[sid].quota

\* line 91: not sub or utcnow() > sub.cycle_end or sub.tokens_used >= sub.quota
Rejected(sid, t) ==
  \/ sid = 0
  \/ t > subs[sid].cycle_end
  \/ subs[sid].tokens_used >= subs[sid].quota

\* ------------------------------------------------------------ request slots
NoToken == [form |-> "none", key |-> "forged", sub |-> NoSub]
NoResp == [status |-> 0, detail |-> "", tokens |-> 0, token |-> NoToken, used |-> 0, quota |-> 0]
Idle == [op |-> "none", pc |-> "idle", email |-> "", pw |-> "", token |-> NoToken,
         type |-> "", uid |-> 0, at |-> 0, sid |-> 0, seen |-> 0, called |-> FALSE,
         read |-> FALSE, resp |-> NoResp]

HttpError(code, msg) == [NoResp EXCEPT !.status = code, !.detail = msg]
Finish(r, resp) == [r EXCEPT !.pc = "done", !.resp = resp]

Init ==
  /\ users = <<>>
  /\ subs = <<>>
  /\ now = 0
  /\ req = [p \in Procs |-> Idle]

\* The store outlives the process (DATABASE_URL; create_all keeps the tables it
\* finds): an account of an earlier run, with the usage its row then holds
ExistingUsed == {0, 500, 510}
InitExisting ==
  /\ users = <<[email |-> "a@x.com", hashed_password |-> Hash("pw123")]>>
  /\ \E used \in ExistingUsed :
       subs = <<[user_id |-> 1, cycle_end |-> CycleDays, tokens_used |-> used,
                 quota |-> Quota]>>
  /\ now = 0
  /\ req = [p \in Procs |-> Idle]

\* ---------------------------------------------------------------- register
\* lines 64-65: the duplicate check
RegisterCheck(p, e, pw) ==
  /\ req[p].pc = "idle"
  /\ LET r == [Idle EXCEPT !.op = "register", !.email = e, !.pw = pw]
     IN  req' = [req EXCEPT ![p] =
                   IF FindUser(e) # 0
                   THEN Finish(r, HttpError(400, "Email already registered"))
                   ELSE [r EXCEPT !.pc = "reg_user"]]
  /\ UNCHANGED <<users, subs, now>>

\* lines 66-69: insert the user row and commit; users.email is unique
RegisterUser(p) ==
  /\ req[p].pc = "reg_user"
  /\ IF FindUser(req[p].email) # 0
     THEN /\ req' = [req EXCEPT ![p] = Finish(@, HttpError(500, "Internal Server Error"))]
          /\ UNCHANGED users
     ELSE /\ users' = Append(users, [email |-> req[p].email,
                                     hashed_password |-> Hash(req[p].pw)])
          /\ req' = [req EXCEPT ![p].pc = "reg_sub", ![p].uid = Len(users) + 1]
  /\ UNCHANGED <<subs, now>>

\* lines 70-71: read the clock and build the subscription row; the row is
\* not in the table before the commit of line 72
RegisterSubRow(p) ==
  /\ req[p].pc = "reg_sub"
  /\ req' = [req EXCEPT ![p].pc = "reg_commit", ![p].at = now]
  /\ UNCHANGED <<users, subs, now>>

\* a register that stores the time it read as cycle_end, the 30 days left out
RegisterSubNoDelta(p) ==
  /\ req[p].pc = "reg_commit"
  /\ subs' = Append(subs, [user_id |-> req[p].uid, cycle_end |-> req[p].at,
                           tokens_used |-> 0, quota |-> Quota])
  /\ req' = [req EXCEPT ![p] = Finish(@, [NoResp EXCEPT !.status = 200,
                                           !.detail = "Registered! Login now."])]
  /\ UNCHANGED <<users, now>>

\* lines 72-73: the commit makes the row visible, with the cycle_end computed
\* from the clock read of line 70
RegisterSub(p) ==
  /\ req[p].pc = "reg_commit"
  /\ subs' = Append(subs, [user_id |-> req[p].uid,
                           cycle_end |-> req[p].at + CycleDays,
                           tokens_used |-> 0, quota |-> Quota])
  /\ req' = [req EXCEPT ![p] = Finish(@, [NoResp EXCEPT !.status = 200,
                                           !.detail = "Registered! Login now."])]
  /\ UNCHANGED <<users, now>>

\* line 72 raising (the store refuses the commit, the worker is stopped):
\* the user row of line 69 is already committed
RegisterSubFails(p) ==
  /\ req[p].pc = "reg_commit"
  /\ req' = [req EXCEPT ![p] = Finish(@, HttpError(500, "Internal Server Error"))]
  /\ UNCHANGED <<users, subs, now>>

\* ------------------------------------------------------------------- login
\* a login that tells an unknown email from a wrong password
LoginEnumerable(p, e, pw) ==
  /\ req[p].pc = "idle"
  /\ LET r == [Idle EXCEPT !.op = "login", !.email = e, !.pw = pw]
         uid == FindUser(e)
     IN  req' = [req EXCEPT ![p] =
                   IF uid = 0
                   THEN Finish(r, HttpError(404, "User not found"))
                   ELSE IF ~VerifyPassword(pw, users[uid].hashed_password)
                   THEN Finish(r, HttpError(400, "Invalid credentials"))
                   ELSE Finish([r EXCEPT !.uid = uid],
                               [NoResp EXCEPT !.status = 200, !.token = Encode(uid)])]
  /\ UNCHANGED <<users, subs, now>>

\* lines 77-81
Login(p, e, pw) ==
  /\ req[p].pc = "idle"
  /\ LET r == [Idle EXCEPT !.op = "login", !.email = e, !.pw = pw]
         uid == FindUser(e)
     IN  req' = [req EXCEPT ![p] =
                   IF uid = 0 \/ ~VerifyPassword(pw, users[uid].hashed_password)
                   THEN Finish(r, HttpError(400, "Invalid credentials"))
                   ELSE Finish([r EXCEPT !.uid = uid],
                               [NoResp EXCEPT !.status = 200, !.token = Encode(uid)])]
  /\ UNCHANGED <<users, subs, now>>

\* -------------------------------------------------------------------- chat
\* lines 85-88: decode the bearer token
ChatVerify(p, t, ty) ==
  /\ req[p].pc = "idle"
  /\ LET r == [Idle EXCEPT !.op = "chat", !.token = t, !.type = ty]
     IN  req' = [req EXCEPT ![p] =
                   IF TokenVerifies(t)
                   THEN [r EXCEPT !.pc = "chat_admit", !.uid = t.sub.val]
                   ELSE Finish(r, HttpError(401, "Invalid token"))]
  /\ UNCHANGED <<users, subs, now>>

\* the lines after a passed admission, up to where the handler waits or ends:
\* 94-95 (the upstream call leaves) or 98
Dispatch(r) ==
  IF r.type = "text"
  THEN [r EXCEPT !.pc = "chat_wait", !.called = TRUE]
  ELSE Finish(r, [NoResp EXCEPT !.status = 200, !.detail = "Only text supported"])

\* an admission check that reserves the fallback cost on the row it admits
ChatAdmitReserving(p) ==
  /\ req[p].pc = "chat_admit"
  /\ LET sid == FindSub(req[p].uid)
         r == [req[p] EXCEPT !.read = TRUE, !.sid = sid,
                             !.seen = IF sid = 0 THEN 0 ELSE subs[sid].tokens_used]
     IN  IF Rejected(sid, now)
         THEN /\ req' = [req EXCEPT ![p] = Finish(r, HttpError(403, "Quota exceeded"))]
              /\ UNCHANGED subs
         ELSE /\ req' = [req EXCEPT ![p] = Dispatch(r)]
              /\ subs' = [subs EXCEPT ![sid].tokens_used = @ + FallbackTokens]
  /\ UNCHANGED <<users, now>>

\* an admission check that rolls an expired cycle over before it rejects
ChatAdmitRenewing(p) ==
  /\ req[p].pc = "chat_admit"
  /\ LET sid == FindSub(req[p].uid)
         r == [req[p] EXCEPT !.read = TRUE, !.sid = sid,
                             !.seen = IF sid = 0 THEN 0 ELSE subs[sid].tokens_used]
     IN  /\ req' = [req EXCEPT ![p] =
                      IF Rejected(sid, now)
                      THEN Finish(r, HttpError(403, "Quota exceeded"))
                      ELSE Dispatch(r)]
         /\ subs' = IF sid # 0 /\ now > subs[sid].cycle_end
                    THEN [subs EXCEPT ![sid].cycle_end = now + CycleDays,
                                      ![sid].tokens_used = 0]
                    ELSE subs
  /\ UNCHANGED <<users, now>>

\* lines 90-95 and 98: load the subscription row, admission check, then the
\* type branch (no store or network round trip lies between them)
ChatAdmit(p) ==
  /\ req[p].pc = "chat_admit"
  /\ LET sid == FindSub(req[p].uid)
         r == [req[p] EXCEPT !.read = TRUE, !.sid = sid,
                             !.seen = IF sid = 0 THEN 0 ELSE subs[sid].tokens_used]
     IN  req' = [req EXCEPT ![p] =
                   IF Rejected(sid, now)
                   THEN Finish(r, HttpError(403, "Quota exceeded"))
                   ELSE Dispatch(r)]
  /\ UNCHANGED <<users, subs, now>>

\* line 96
Cost(out) == IF out.kind = "usage" THEN out.total ELSE FallbackTokens

\* a chat that adds the cost it returns to the row it read at admission
ChatReturnCommitting(p, out) ==
  /\ req[p].pc = "chat_wait"
  /\ req' = [req EXCEPT ![p] =
               IF out = UpstreamError
               THEN Finish(@, HttpError(500, "Internal Server Error"))
               ELSE Finish(@, [NoResp EXCEPT !.status = 200, !.tokens = Cost(out)])]
  /\ subs' = IF out = UpstreamError THEN subs
             ELSE [subs EXCEPT ![req[p].sid].tokens_used = @ + Cost(out)]
  /\ UNCHANGED <<users, now>>

\* lines 95 (the call returns or raises) to 97
ChatReturn(p, out) ==
  /\ req[p].pc = "chat_wait"
  /\ req' = [req EXCEPT ![p] =
               IF out = UpstreamError
               THEN Finish(@, HttpError(500, "Internal Server Error"))
               ELSE Finish(@, [NoResp EXCEPT !.status = 200, !.tokens = Cost(out)])]
  /\ UNCHANGED <<users, subs, now>>

\* ------------------------------------------------------------------- usage
\* lines 102-104: nothing is caught
Usage(p, t) ==
  /\ req[p].pc = "idle"
  /\ LET r == [Idle EXCEPT !.op = "usage", !.token = t]
         sid == FindSub(t.sub.val)
     IN  req' = [req EXCEPT ![p] =
                   IF ~TokenVerifies(t)
                   THEN Finish(r, HttpError(500, "Internal Server Error"))
                   ELSE IF sid = 0
                   THEN Finish([r EXCEPT !.read = TRUE, !.uid = t.sub.val],
                               HttpError(500, "Internal Server Error"))
                   ELSE Finish([r EXCEPT !.read = TRUE, !.uid = t.sub.val, !.sid = sid],
                               [NoResp EXCEPT !.status = 200,
                                              !.used = subs[sid].tokens_used,
                                              !.quota = subs[sid].quota])]
  /\ UNCHANGED <<users, subs, now>>

\* ------------------------------------------------------------- environment
\* the response is delivered; the slot takes the next request
Release(p) ==
  /\ req[p].pc = "done"
  /\ req' = [req EXCEPT ![p] = Idle]
  /\ UNCHANGED <<users, subs, now>>

\* datetime.utcnow() moves on
Tick ==
  /\ now + DayStep <= MaxNow
  /\ now' = now + DayStep
  /\ UNCHANGED <<users, subs, req>>

Next ==
  \/ \E p \in Procs, e \in Emails, pw \in RegPasswords : RegisterCheck(p, e, pw)
  \/ \E p \in Procs : RegisterUser(p)
  \/ \E p \in Procs : RegisterSubRow(p)
  \/ \E p \in Procs : RegisterSub(p)
  \/ \E p \in Procs : RegisterSubFails(p)
  \/ \E p \in Procs, e \in Emails, pw \in Passwords : Login(p, e, pw)
  \/ \E p \in Procs, t \in Tokens, ty \in ReqTypes : ChatVerify(p, t, ty)
  \/ \E p \in Procs : ChatAdmit(p)
  \/ \E p \in Procs, out \in UpstreamOutcomes : ChatReturn(p, out)
  \/ \E p \in Procs, t \in Tokens : Usage(p, t)
  \/ \E p \in Procs : Release(p)
  \/ Tick

Spec == Init /\ [][Next]_vars

SpecExisting == InitExisting /\ [][Next]_vars

\* ================================================================== claims
ChatDone(p) == req[p].op = "chat" /\ req[p].pc = "done"
\* the request of slot p ended in a completion handed back with its cost
ChatServed(p) == ChatDone(p) /\ req[p].called /\ req[p].resp.status = 200
\* the request of slot p ended because its upstream call raised
ChatUpstreamFailed(p) == ChatDone(p) /\ req[p].called /\ req[p].resp.status # 200

RECURSIVE SumTokens(_)
SumTokens(S) ==
  IF S = {} THEN 0
  ELSE LET p == CHOOSE x \in S : TRUE
       IN  req[p].resp.tokens + SumTokens(S \ {p})

\* C1: the step that ends a chat with a completion adds the cost it returns
\* to the tokens_used of the account's subscription row.
C1_ChatCommitsCost ==
  [][\A p \in Procs :
       (req[p].pc = "chat_wait" /\ req'[p].pc = "done" /\ req'[p].resp.status = 200)
       => /\ Len(subs') = Len(subs)
          /\ subs'[req[p].sid].tokens_used
               = subs[req[p].sid].tokens_used + req'[p].resp.tokens]_vars

\* C2: when every handler has served a chat of the same account and all of
\* them were admitted on the same tokens_used (they ran in parallel), the row
\* holds that value plus the sum of all their costs.
C2_NoLostCommit ==
  (/\ \A p \in Procs : ChatServed(p)
   /\ \A p, q \in Procs : req[p].sid = req[q].sid /\ req[p].seen = req[q].seen)
  => \A p \in Procs :
       subs[req[p].sid].tokens_used = req[p].seen + SumTokens(Procs)

\* the first row of the account exists, is inside its cycle and below its quota
C3_Admits(uid) ==
  \E i \in 1..Len(subs) :
     /\ subs[i].user_id = uid
     /\ \A j \in 1..Len(subs) : subs[j].user_id = uid => i <= j
     /\ now <= subs[i].cycle_end
     /\ subs[i].tokens_used < subs[i].quota
C3_AdmissionStep ==
  \A p \in Procs :
     (req[p].pc = "chat_admit" /\ req'[p] # req[p])
     => IF C3_Admits(req[p].uid)
        THEN /\ req'[p].resp.status # 403
             /\ req'[p].called <=> req[p].type = "text"
        ELSE /\ req'[p].pc = "done"
             /\ req'[p].resp.status = 403
             /\ req'[p].resp.detail = "Quota exceeded"
             /\ ~req'[p].called
C3_CallGuarded ==
  \A p \in Procs :
     req[p].called
     => /\ req[p].op = "chat"
        /\ req[p].token.form = "jwt" /\ req[p].token.key = SecretKey
        /\ req[p].token.sub.kind = "str" /\ req[p].token.sub.val = req[p].uid
        /\ req[p].read
        /\ req[p].sid \in 1..Len(subs)
        /\ subs[req[p].sid].user_id = req[p].uid
        /\ req[p].seen < subs[req[p].sid].quota
\* C3: the admission step rejects with 403, before any upstream call, exactly
\* when the account has no subscription row, or now > cycle_end, or
\* tokens_used >= quota, and admits otherwise; and a request that called the
\* upstream service had verified its token and passed admission.
C3_AdmissionGate == []C3_CallGuarded /\ [][C3_AdmissionStep]_vars
\* a chat rejected at admission, inside its cycle, on a row at its quota
C3_Witness ==
  \E p \in Procs :
     /\ ChatDone(p) /\ req[p].resp.status = 403 /\ ~req[p].called
     /\ req[p].sid # 0
     /\ now <= subs[req[p].sid].cycle_end
     /\ subs[req[p].sid].tokens_used = subs[req[p].sid].quota

\* C4: no account row exists without a subscription row.
C4_NoHalfCreatedAccount ==
  \A i \in 1..Len(users) : \E j \in 1..Len(subs) : subs[j].user_id = i

\* C5: once a register call was refused as a duplicate (400) and no register
\* of that email is still running, exactly one account holds the email and
\* exactly one subscription row belongs to it.
C5_DuplicateRegistration ==
  \A p \in Procs :
     (/\ req[p].op = "register" /\ req[p].pc = "done" /\ req[p].resp.status = 400
      /\ \A q \in Procs : (req[q].op = "register" /\ req[q].email = req[p].email)
                            => req[q].pc = "done")
     => /\ Cardinality({i \in 1..Len(users) : users[i].email = req[p].email}) = 1
        /\ \A i \in 1..Len(users) :
             users[i].email = req[p].email
             => Cardinality({j \in 1..Len(subs) : subs[j].user_id = i}) = 1

\* the row of a failed chat holds what the request read
C6_FailedUnchanged ==
  \A p \in Procs :
     ChatUpstreamFailed(p) => subs[req[p].sid].tokens_used = req[p].seen
C6_NoSpeculativeWrite ==
  \A p \in Procs :
     (\/ req[p].pc = "chat_admit" /\ req'[p] # req[p]
      \/ req[p].pc = "chat_wait" /\ req'[p].pc = "done" /\ req'[p].resp.status # 200)
     => subs' = subs
\* C6: a chat whose upstream call raised leaves the row's tokens_used at the
\* value the request read at admission, and neither its admission step nor
\* the step in which the call raises writes to the subscriptions table.
C6_UpstreamFailureLeavesUsage == []C6_FailedUnchanged /\ [][C6_NoSpeculativeWrite]_vars
\* a chat that was admitted, called the upstream service and got an error
C6_Witness ==
  \E p \in Procs : ChatUpstreamFailed(p) /\ req[p].resp.status = 500

\* C7: a chat or usage request whose token does not verify ends with 401,
\* having read no ledger row and made no upstream call.
C7_UniformUnauthorized ==
  \A p \in Procs :
     (/\ req[p].pc = "done" /\ req[p].op \in {"chat", "usage"}
      /\ ~TokenVerifies(req[p].token))
     => /\ req[p].resp.status = 401
        /\ ~req[p].read
        /\ ~req[p].called

\* C8: once one served chat of an account has been charged the quota or more
\* (so the cumulative cost is at least the quota), an admission check of that
\* account rejects with 403.
C8_RejectedPastQuota ==
  [][\A p, q \in Procs :
       (/\ ChatServed(q) /\ req[q].resp.tokens >= Quota
        /\ req[p].pc = "chat_admit" /\ req[p].uid = req[q].uid
        /\ req'[p] # req[p])
       => req'[p].pc = "done" /\ req'[p].resp.status = 403]_vars

\* the email is registered; the email is registered under this password
C9_Known(e) == \E i \in 1..Len(users) : users[i].email = e
C9_Matches(e, pw) ==
  \E i \in 1..Len(users) :
     users[i].email = e /\ users[i].hashed_password = [scheme |-> "bcrypt", of |-> pw]
C9_FailedLogin(p) ==
  /\ req[p].op = "login" /\ req[p].pc = "done"
  /\ ~C9_Matches(req[p].email, req[p].pw)
C9_SameOutcome ==
  \A p \in Procs :
     C9_FailedLogin(p)
     => /\ req[p].resp.status = 400
        /\ req[p].resp.detail = "Invalid credentials"
        /\ req[p].resp.token = NoToken
        /\ \A q \in Procs : C9_FailedLogin(q) => req[q].resp = req[p].resp
C9_LoginWritesNothing ==
  \A p \in Procs :
     (req[p].pc = "idle" /\ req'[p].op = "login") => (users' = users /\ subs' = subs)
\* C9: a login with a wrong password and a login with an unknown email end
\* with the same response, 400 "Invalid credentials" without a token, and a
\* login step writes to no table.
C9_LoginIndistinguishable == []C9_SameOutcome /\ [][C9_LoginWritesNothing]_vars
\* one failed login of a registered email beside one of an unknown email
C9_Witness ==
  \E p, q \in Procs :
     /\ C9_FailedLogin(p) /\ C9_Known(req[p].email)
     /\ C9_FailedLogin(q) /\ ~C9_Known(req[q].email)
     /\ req[p].resp = req[q].resp

\* C10: a chat whose type is not "text" ends with an error status, without an
\* upstream call and with the row's tokens_used as it was read.
C10_UnsupportedTypeIsError ==
  \A p \in Procs :
     (ChatDone(p) /\ req[p].type # "text")
     => /\ req[p].resp.status >= 400
        /\ ~req[p].called
        /\ (req[p].sid # 0 => subs[req[p].sid].tokens_used = req[p].seen)

\* C11: a chat whose upstream call raised ends with a 5xx response of its own,
\* one that is neither 401, nor 403, nor the generic internal-error response.
C11_DistinctUpstreamFailure ==
  \A p \in Procs :
     ChatUpstreamFailed(p)
     => /\ req[p].resp.status >= 500
        /\ req[p].resp # [NoResp EXCEPT !.status = 500, !.detail = "Internal Server Error"]

\* why the admission check of a rejected chat refused it, where one cause alone
\* explains the 403 the slot holds
C12_Reason(p) ==
  IF req[p].sid = 0 THEN "NoSubscription"
  ELSE IF subs[req[p].sid].tokens_used < subs[req[p].sid].quota THEN "CycleExpired"
  ELSE IF now <= subs[req[p].sid].cycle_end THEN "QuotaExhausted"
  ELSE "several"
C12_RejectedAtAdmission(p) == ChatDone(p) /\ req[p].read /\ req[p].resp.status = 403
\* C12: two chats rejected at admission for different single causes (no
\* subscription, cycle expired, quota exhausted) carry different reasons.
C12_SpecificReason ==
  \A p, q \in Procs :
     (/\ C12_RejectedAtAdmission(p) /\ C12_RejectedAtAdmission(q)
      /\ C12_Reason(p) # "several" /\ C12_Reason(q) # "several"
      /\ C12_Reason(p) # C12_Reason(q))
     => req[p].resp # req[q].resp

\* the subscription rows of account uid
C13_Rows(uid) == {j \in 1..Len(subs) : subs[j].user_id = uid}
C13_FreshCycle ==
  \A p \in Procs :
     (req[p].pc = "reg_commit" /\ req'[p].pc = "done" /\ req'[p].resp.status = 200)
     => /\ Cardinality(C13_Rows(req[p].uid)') = 1
        /\ req[p].at <= now
        /\ \A j \in C13_Rows(req[p].uid)' :
             /\ subs'[j].tokens_used = 0
             /\ subs'[j].quota = 500
             /\ subs'[j].cycle_end = req[p].at + 30
             /\ req[p].at <= subs'[j].cycle_end
             /\ subs'[j].tokens_used < subs'[j].quota
             /\ \A t \in req[p].at..subs'[j].cycle_end : ~Rejected(j, t)'
\* C13: the step that ends a successful register leaves the new account with
\* exactly one subscription row, tokens_used 0, quota 500 and cycle_end the
\* time the register read from the clock plus 30 days, a row on which the
\* admission check of chat passes at that time and up to cycle_end.
C13_FreshAccountCycle == [][C13_FreshCycle]_vars
\* a register just answered 200 while the clock moved on between its clock
\* read and its commit, and the account's row ends 30 days from that read
C13_Witness ==
  \E p \in Procs :
     /\ req[p].op = "register" /\ req[p].pc = "done" /\ req[p].resp.status = 200
     /\ now = req[p].at + DayStep
     /\ \E j \in C13_Rows(req[p].uid) :
          subs[j].cycle_end = req[p].at + 30 /\ subs[j].tokens_used = 0

\* slot q holds a login that answered 200 with a token
C14_Issued(q) == req[q].op = "login" /\ req[q].pc = "done" /\ req[q].resp.status = 200
\* C14: a chat or usage request presenting the token a login returned for an
\* account passes verification and reads the ledger of that same account.
C14_TokenRoundTrip ==
  \A p, q \in Procs :
     (/\ C14_Issued(q)
      /\ req[p].op \in {"chat", "usage"} /\ req[p].pc = "done"
      /\ req[p].token = req[q].resp.token)
     => /\ req[p].resp.status # 401
        /\ req[p].read
        /\ req[p].uid = req[q].uid
        /\ (req[p].sid # 0 => subs[req[p].sid].user_id = req[q].uid)

\* the largest cost one chat can be charged
C15_LargestCost ==
  CHOOSE c \in UpstreamCosts \cup {FallbackTokens} :
     \A d \in UpstreamCosts \cup {FallbackTokens} : d <= c
\* C15: no subscription row holds more than its quota plus the largest cost
\* of a single chat.
C15_BoundedOvershoot ==
  \A j \in 1..Len(subs) : subs[j].tokens_used - subs[j].quota <= C15_LargestCost
\* two chats of one account, admitted on the same row, both served
C15_Witness ==
  \E p, q \in Procs :
     /\ p # q /\ ChatServed(p) /\ ChatServed(q)
     /\ req[p].sid = req[q].sid /\ req[p].sid # 0
     /\ req[p].resp.tokens = C15_LargestCost /\ req[q].resp.tokens = C15_LargestCost

\* the account's first row is exhausted or expired
C16_Terminal(uid) ==
  \E i \in 1..Len(subs) :
     /\ subs[i].user_id = uid
     /\ \A j \in 1..Len(subs) : subs[j].user_id = uid => i <= j
     /\ (now > subs[i].cycle_end \/ subs[i].tokens_used >= subs[i].quota)
C16_StaysTerminal ==
  /\ \A u \in UserIds : C16_Terminal(u) => C16_Terminal(u)'
  /\ \A p, q \in Procs :
       (/\ ChatDone(q) /\ req[q].resp.status = 403 /\ req[q].sid # 0
        /\ req[p].pc = "chat_admit" /\ req[p].uid = req[q].uid
        /\ req'[p] # req[p])
       => /\ req'[p].pc = "done" /\ req'[p].resp.status = 403
          /\ ~req'[p].called
\* C16: an account whose row is exhausted or expired stays so over every step
\* of register, login, chat, usage and the clock, and after a chat of the
\* account was rejected on its row every later admission check of the account
\* rejects too.
C16_TerminalCycle == [][C16_StaysTerminal]_vars
\* a chat rejected on its row while an earlier rejected chat of the same
\* account is still held by another slot
C16_Witness ==
  \E p, q \in Procs :
     /\ p # q
     /\ ChatDone(p) /\ req[p].resp.status = 403 /\ req[p].sid # 0
     /\ ChatDone(q) /\ req[q].resp.status = 403 /\ req[q].sid = req[p].sid
     /\ now > subs[req[p].sid].cycle_end

C17_NonNegative == \A j \in 1..Len(subs) : subs[j].tokens_used >= 0
\* slot p's step ends a chat with a completion charged to row i
C17_CommitOf(p, i) ==
  /\ req[p].pc = "chat_wait" /\ req[p].sid = i
  /\ req'[p].pc = "done" /\ req'[p].resp.status = 200
C17_Frame ==
  \A i \in 1..Len(subs) :
     /\ i <= Len(subs')
     /\ subs'[i].tokens_used >= subs[i].tokens_used
     /\ subs'[i].quota = subs[i].quota
     /\ subs'[i].cycle_end = subs[i].cycle_end
     /\ subs'[i].user_id = subs[i].user_id
     /\ (subs'[i].tokens_used # subs[i].tokens_used
           => \E p \in Procs : C17_CommitOf(p, i))
\* C17: tokens_used of every row is never negative and never decreases, quota
\* and cycle_end of a stored row never change, and tokens_used changes only in
\* the step that ends a chat with a completion.
C17_UsageFrame == []C17_NonNegative /\ [][C17_Frame]_vars
\* a usage answer and a rejected or failed chat of the same row side by side,
\* the row still holding what the usage answer reported
C17_Witness ==
  \E p, q \in Procs :
     /\ req[p].op = "usage" /\ req[p].pc = "done" /\ req[p].resp.status = 200
     /\ ChatDone(q) /\ req[q].resp.status \in {403, 500} /\ req[q].sid = req[p].sid
     /\ subs[req[p].sid].tokens_used = req[p].resp.used

\* slot p holds a finished register
C18_Registered(p) == req[p].op = "register" /\ req[p].pc = "done"
\* C18: registers of one email leave at most one account and one subscription
\* row for it, no two of them answer 200, and one that did not create the
\* account answers 400.
C18_ConcurrentRegister ==
  /\ \A e \in Emails :
       /\ Cardinality({i \in 1..Len(users) : users[i].email = e}) <= 1
       /\ \A i \in 1..Len(users) :
            users[i].email = e
            => Cardinality({j \in 1..Len(subs) : subs[j].user_id = i}) <= 1
  /\ \A p, q \in Procs :
       (p # q /\ C18_Registered(p) /\ C18_Registered(q) /\ req[p].email = req[q].email)
       => ~(req[p].resp.status = 200 /\ req[q].resp.status = 200)
  /\ \A p \in Procs :
       (C18_Registered(p) /\ req[p].uid = 0) => req[p].resp.status = 400

\* the cost the upstream answer stands for: its total, or 50 when it has none
C19_Expected(out) == IF out.kind = "usage" THEN out.total ELSE FallbackTokens
\* C19: the step in which the upstream call of slot p returns an answer
\* hands back, and adds to the account's tokens_used, the answer's total
\* token count, or 50 when the answer carries no usage.
C19_CostCharged ==
  [][\A p \in Procs : \A out \in UpstreamOutcomes :
       (ChatReturn(p, out) /\ out.kind # "error")
       => /\ req'[p].resp.status = 200
          /\ req'[p].resp.tokens = C19_Expected(out)
          /\ subs'[req[p].sid].tokens_used
               = subs[req[p].sid].tokens_used + C19_Expected(out)]_vars

\* a finished usage request with a verifying token of an existing account
\* answered 200 with the tokens_used and quota the account's row holds
C20_Answered ==
  \A p \in Procs :
     (/\ req[p].op = "usage" /\ req[p].pc = "done"
      /\ TokenVerifies(req[p].token)
      /\ req[p].token.sub.val \in 1..Len(users))
     => /\ req[p].resp.status = 200
        /\ \A j \in 1..Len(subs) :
             subs[j].user_id = req[p].token.sub.val
             => (req[p].resp.used = subs[j].tokens_used
                 /\ req[p].resp.quota = subs[j].quota)
\* C20: a usage request with a verifying token of an existing account answers
\* 200 with the tokens_used and quota its row holds, also when the account
\* has no row, and the request changes neither table nor the clock.
C20_UsageDefined ==
  /\ []C20_Answered
  /\ [][\A p \in Procs : \A t \in Tokens :
          Usage(p, t) => UNCHANGED <<users, subs, now>>]_vars
====
